---- MODULE Spec2Model ----
(***************************************************************************)
(* A model of epiphyte (git worktree manager): the porcelain listing       *)
(* parser, the managed-directory filter, the file link engine, the fan-out *)
(* operations and the import of foreign worktrees.                         *)
(*                                                                         *)
(* Strings are sequences of tokens ("worktree ", "/", "repo", ...), so     *)
(* that prefix tests, prefix stripping, path splitting and name formatting *)
(* are computed and not assumed.  A PathBuf is the sequence of its         *)
(* components, each component a string.  Option values are sequences of    *)
(* length 0 (None) or 1 (Some).  The filesystem is a function from the     *)
(* paths that exist to their nodes.                                        *)
(***************************************************************************)
EXTENDS Integers, Sequences, FiniteSets, TLC

VARIABLES
    pc,      \* the operation that has run ("start" before any)
    stdout,  \* the lines `git worktree list --porcelain` prints
    fs,      \* the filesystem: [existing paths -> node]
    fs0,     \* the filesystem before the first operation ran
    config,  \* what Config::load answers: {load_ok, main_branch, files}
    git,     \* what the git commands answer (exit statuses, HEAD, branches)
    cmds,    \* the git commands add_worktree and the import loop ran: [argv, ok]
    args,    \* the arguments of the operation
    ret      \* what the operation returned

vars == <<pc, stdout, fs, fs0, config, git, cmds, args, ret>>

(***************************************************************************)
(* Bounds of the model.                                                    *)
(***************************************************************************)
MaxLines == 3       \* lines of a porcelain listing drawn freely
MaxFollow == 2      \* symlink hops followed before giving up
MaxWt == 3          \* managed worktrees in the listing of a fan-out
MaxEntries == 2     \* file entries handed to a fan-out
MaxImport == 3      \* worktrees listed after the main one in an import

(***************************************************************************)
(* Option and Result.                                                      *)
(***************************************************************************)
None == <<>>
Some(x) == <<x>>
Unwrap(o) == o[1]
UnwrapOr(o, d) == IF o = None THEN d ELSE o[1]

\* `let a = x; F(a)`: x is evaluated once, then F is applied to its value.
Then(x, F(_)) == CHOOSE r \in {F(a) : a \in {x}} : TRUE

Ok(v) == [ok |-> TRUE, val |-> v]
Err(e) == [ok |-> FALSE, val |-> e]

(***************************************************************************)
(* Strings: str::starts_with and str::strip_prefix.                        *)
(***************************************************************************)
StartsWith(s, prefix) ==
    /\ Len(s) >= Len(prefix)
    /\ SubSeq(s, 1, Len(prefix)) = prefix

StripPrefix(s, prefix) ==
    IF StartsWith(s, prefix)
    THEN Some(SubSeq(s, Len(prefix) + 1, Len(s)))
    ELSE None

(***************************************************************************)
(* Paths.  PathBuf::from splits the text at "/", drops empty components    *)
(* and "." components that are not leading, and keeps a leading root.      *)
(***************************************************************************)
RootDir == <<"/">>
CurDir == <<".">>

RECURSIVE SplitAcc(_, _, _)
SplitAcc(s, cur, acc) ==
    IF s = <<>>
    THEN IF cur = <<>> THEN acc ELSE Append(acc, cur)
    ELSE IF Head(s) = "/"
         THEN SplitAcc(Tail(s), <<>>, IF cur = <<>> THEN acc ELSE Append(acc, cur))
         ELSE SplitAcc(Tail(s), Append(cur, Head(s)), acc)

NotCurDir(c) == c # CurDir

PathBufFrom(s) ==
    LET comps == SplitAcc(s, <<>>, <<>>)
        rooted == s # <<>> /\ Head(s) = "/"
    IN  IF rooted
        THEN <<RootDir>> \o SelectSeq(comps, NotCurDir)
        ELSE IF comps # <<>> /\ Head(comps) = CurDir
             THEN <<CurDir>> \o SelectSeq(Tail(comps), NotCurDir)
             ELSE SelectSeq(comps, NotCurDir)

\* Path::join: an absolute argument replaces the path.
Join(p, s) ==
    LET q == PathBufFrom(s)
    IN  IF q # <<>> /\ Head(q) = RootDir THEN q ELSE p \o q

\* Path::to_string_lossy: the text of a path.
RECURSIVE JoinText(_)
JoinText(cs) ==
    IF cs = <<>> THEN <<>>
    ELSE IF Len(cs) = 1 THEN cs[1]
    ELSE cs[1] \o <<"/">> \o JoinText(Tail(cs))

ToText(p) ==
    IF p # <<>> /\ Head(p) = RootDir
    THEN <<"/">> \o JoinText(Tail(p))
    ELSE JoinText(p)

\* Faulty variant: a prefix test on the text of the paths, not on their components.
PathStartsWith_Text(p, base) ==
    /\ Len(ToText(p)) >= Len(ToText(base))
    /\ SubSeq(ToText(p), 1, Len(ToText(base))) = ToText(base)

\* Path::starts_with: whole components only.
PathStartsWith(p, base) ==
    /\ Len(p) >= Len(base)
    /\ SubSeq(p, 1, Len(base)) = base

\* Path::file_name
FileName(p) ==
    IF p = <<>> \/ p[Len(p)] = RootDir \/ p[Len(p)] = <<"..">>
    THEN None
    ELSE Some(p[Len(p)])

\* Path::parent
Parent(p) ==
    IF p = <<>> \/ p = <<RootDir>>
    THEN None
    ELSE Some(SubSeq(p, 1, Len(p) - 1))

(***************************************************************************)
(* config.rs                                                               *)
(***************************************************************************)
CONFIG_DIR == <<".epi">>
TREES_DIR == <<"trees">>

get_trees_dir(project_root) == Join(Join(project_root, CONFIG_DIR), TREES_DIR)

\* find_project_root: the directory that holds .git
ProjectRoot == <<RootDir, <<"repo">>>>

(***************************************************************************)
(* The filesystem.  A node is a file with a content, a directory that is   *)
(* writable or not, or a symbolic link with a target.                      *)
(***************************************************************************)
File(c) == [k |-> "file", c |-> c, w |-> TRUE, t |-> <<>>]
Dir(w) == [k |-> "dir", c |-> 0, w |-> w, t |-> <<>>]
Symlink(t) == [k |-> "symlink", c |-> 0, w |-> TRUE, t |-> t]

\* The path a lookup ends at after following the symlinks at p.
RECURSIVE Follow(_, _, _)
Follow(f, p, n) ==
    IF p \notin DOMAIN f THEN None
    ELSE IF f[p].k # "symlink" THEN Some(p)
    ELSE IF n = 0 THEN None
    ELSE Follow(f, f[p].t, n - 1)

\* Path::exists, Path::is_dir: follow symlinks.
Exists(f, p) == Follow(f, p, MaxFollow) # None
IsDir(f, p) ==
    LET q == Follow(f, p, MaxFollow)
    IN  q # None /\ f[q[1]].k = "dir"

\* Path::symlink_metadata: does not follow symlinks.
SymlinkMetadata(f, p) ==
    IF p \in DOMAIN f THEN Ok(f[p])
    ELSE IF Len(p) > 1 /\ Exists(f, SubSeq(p, 1, Len(p) - 1))
                       /\ ~IsDir(f, SubSeq(p, 1, Len(p) - 1))
    THEN Err("NotADirectory")
    ELSE Err("NotFound")

(***************************************************************************)
(* std::fs operations.  Each returns the filesystem it leaves behind, also *)
(* when it fails.                                                          *)
(***************************************************************************)
FsOk(f) == [ok |-> TRUE, fs |-> f, err |-> ""]
FsErr(f, e) == [ok |-> FALSE, fs |-> f, err |-> e]

\* The entries of directory p, and everything below p.
Children(f, p) == {q \in DOMAIN f : Len(q) = Len(p) + 1 /\ PathStartsWith(q, p)}
Below(f, p) == {q \in DOMAIN f : Len(q) > Len(p) /\ PathStartsWith(q, p)}

Without(f, S) == [q \in DOMAIN f \ S |-> f[q]]

\* Why an entry cannot be created in or removed from the parent of p ("" if it can).
ParentError(f, p) ==
    LET par == Parent(p)
    IN  IF par = None \/ ~Exists(f, par[1]) THEN "NotFound"
        ELSE IF ~IsDir(f, par[1]) THEN "NotADirectory"
        ELSE IF ~f[Follow(f, par[1], MaxFollow)[1]].w THEN "PermissionDenied"
        ELSE ""

\* mkdir(2)
Mkdir(f, p) ==
    IF p \in DOMAIN f THEN FsErr(f, "AlreadyExists")
    ELSE IF ParentError(f, p) # "" THEN FsErr(f, ParentError(f, p))
    ELSE FsOk((p :> Dir(TRUE)) @@ f)

\* fs::create_dir_all
RECURSIVE CreateDirAll(_, _)
CreateDirAll(f, p) ==
    IF p = <<>> THEN FsOk(f)
    ELSE LET first == Mkdir(f, p)
         IN  IF first.ok THEN first
             ELSE IF first.err # "NotFound"
             THEN IF IsDir(f, p) THEN FsOk(f) ELSE first
             ELSE IF Parent(p) = None THEN FsErr(f, "failed to create whole tree")
             ELSE LET up == CreateDirAll(f, Parent(p)[1])
                  IN  IF ~up.ok THEN up
                      ELSE LET again == Mkdir(up.fs, p)
                           IN  IF again.ok \/ IsDir(up.fs, p)
                               THEN FsOk(again.fs)
                               ELSE again

\* fs::remove_file: unlink(2), which removes a symlink and not its target.
RemoveFile(f, p) ==
    IF p \notin DOMAIN f THEN FsErr(f, "NotFound")
    ELSE IF f[p].k = "dir" THEN FsErr(f, "IsADirectory")
    ELSE IF ParentError(f, p) # "" THEN FsErr(f, ParentError(f, p))
    ELSE FsOk(Without(f, {p}))

\* fs::remove_dir_all: empties the directory, then removes it.  A directory
\* that is not writable keeps its entries; a parent that is not writable
\* keeps the emptied directory.
RemoveDirAll(f, p) ==
    IF p \notin DOMAIN f THEN FsErr(f, "NotFound")
    ELSE IF f[p].k # "dir" THEN RemoveFile(f, p)
    ELSE IF \E q \in {p} \union Below(f, p) :
                f[q].k = "dir" /\ ~f[q].w /\ Children(f, q) # {}
    THEN FsErr(f, "PermissionDenied")
    ELSE IF ParentError(f, p) # ""
    THEN FsErr(Without(f, Below(f, p)), ParentError(f, p))
    ELSE FsOk(Without(f, {p} \union Below(f, p)))

\* std::os::unix::fs::symlink(src, dst): the source need not exist.
MakeSymlink(f, src, dst) ==
    IF dst \in DOMAIN f THEN FsErr(f, "AlreadyExists")
    ELSE IF ParentError(f, dst) # "" THEN FsErr(f, ParentError(f, dst))
    ELSE FsOk((dst :> Symlink(src)) @@ f)

\* fs::copy(from, to): both ends follow symlinks; `to` is created or truncated.
CopyFile(f, from, to) ==
    LET q == Follow(f, from, MaxFollow)
        loc == IF to \in DOMAIN f /\ f[to].k = "symlink" THEN f[to].t ELSE to
    IN  IF q = None THEN FsErr(f, "NotFound")
        ELSE IF f[q[1]].k # "file" THEN FsErr(f, "InvalidInput")
        ELSE IF loc \in DOMAIN f
        THEN IF f[loc].k # "file" THEN FsErr(f, "IsADirectory")
             ELSE FsOk([f EXCEPT ![loc] = File(f[q[1]].c)])
        ELSE IF ParentError(f, loc) # "" THEN FsErr(f, ParentError(f, loc))
        ELSE FsOk((loc :> File(f[q[1]].c)) @@ f)

(***************************************************************************)
(* copy_dir_recursive.  read_dir yields the entries in an order the        *)
(* program does not choose; the copy of one entry does not depend on the   *)
(* others, so one order stands for all.                                    *)
(***************************************************************************)
RECURSIVE copy_dir_recursive(_, _, _)
RECURSIVE CopyEntries(_, _, _)
CopyEntries(f, entries, dst) ==
    IF entries = {} THEN FsOk(f)
    ELSE LET src_path == CHOOSE e \in entries : TRUE
             dst_path == dst \o <<src_path[Len(src_path)]>>
             one == IF IsDir(f, src_path)
                    THEN copy_dir_recursive(f, src_path, dst_path)
                    ELSE CopyFile(f, src_path, dst_path)
         IN  Then(one, LAMBDA r : IF ~r.ok THEN r
                                   ELSE CopyEntries(r.fs, entries \ {src_path}, dst))

copy_dir_recursive(f, src, dst) ==
    LET made == CreateDirAll(f, dst)
        dir == Follow(f, src, MaxFollow)
    IN  Then(made, LAMBDA r : IF ~r.ok THEN r
                              ELSE IF dir = None THEN FsErr(r.fs, "NotFound")
                              ELSE CopyEntries(r.fs, Children(f, dir[1]), dst))

(***************************************************************************)
(* link_entry                                                              *)
(***************************************************************************)
\* Faulty variant: whatever occupies dst is left in place.
RemoveExisting_Kept(f, dst) == FsOk(f)

\* "Remove existing destination if it exists"
RemoveExisting(f, dst) ==
    IF Exists(f, dst) \/ SymlinkMetadata(f, dst).ok
    THEN IF IsDir(f, dst) /\ ~(SymlinkMetadata(f, dst).val.k = "symlink")
         THEN RemoveDirAll(f, dst)
         ELSE RemoveFile(f, dst)
    ELSE FsOk(f)

\* Faulty variant: the arms of `match link_type` are exchanged.
CreateLink_Swapped(f, src, dst, link_type) ==
    IF link_type # "Symlink"
    THEN MakeSymlink(f, src, dst)
    ELSE IF IsDir(f, src)
         THEN copy_dir_recursive(f, src, dst)
         ELSE CopyFile(f, src, dst)

\* `match link_type`
CreateLink(f, src, dst, link_type) ==
    IF link_type = "Symlink"
    THEN MakeSymlink(f, src, dst)
    ELSE IF IsDir(f, src)
         THEN copy_dir_recursive(f, src, dst)
         ELSE CopyFile(f, src, dst)

link_entry(f, src, dst, link_type) ==
    LET parent == IF Parent(dst) # None
                  THEN CreateDirAll(f, Parent(dst)[1])
                  ELSE FsOk(f)
    IN  Then(parent, LAMBDA p :
            IF ~p.ok THEN p
            ELSE Then(RemoveExisting(p.fs, dst), LAMBDA removed :
                     IF ~removed.ok THEN removed
                     ELSE CreateLink(removed.fs, src, dst, link_type)))

(***************************************************************************)
(* list_git_worktrees: the parser of the porcelain listing.                *)
(***************************************************************************)
GitWorktree(path, branch) == [path |-> path, branch |-> branch]

ParseInit == [worktrees |-> <<>>, current_path |-> None, current_branch |-> None]

\* One turn of the loop over stdout.lines().
ParseLine(st, line) ==
    IF StartsWith(line, <<"worktree ">>)
    THEN [worktrees |->
              IF st.current_path # None
              THEN Append(st.worktrees,
                          GitWorktree(Unwrap(st.current_path),
                                      UnwrapOr(st.current_branch, <<>>)))
              ELSE st.worktrees,
          current_path |-> Some(PathBufFrom(Unwrap(StripPrefix(line, <<"worktree ">>)))),
          current_branch |-> None]
    ELSE IF StartsWith(line, <<"branch ">>)
    THEN [st EXCEPT !.current_branch =
              Some(UnwrapOr(StripPrefix(line, <<"branch ", "refs/heads/">>),
                            Unwrap(StripPrefix(line, <<"branch ">>))))]
    ELSE st

RECURSIVE ParseLines(_, _)
ParseLines(st, lines) ==
    IF lines = <<>> THEN st
    ELSE Then(ParseLine(st, Head(lines)), LAMBDA next : ParseLines(next, Tail(lines)))

\* Faulty variant: the pending record is not emitted at end of input.
ParseFlush_Dropped(st) == st.worktrees

\* The record still pending at end of input.
ParseFlush(st) ==
    IF st.current_path # None
    THEN Append(st.worktrees,
                GitWorktree(Unwrap(st.current_path), UnwrapOr(st.current_branch, <<>>)))
    ELSE st.worktrees

list_git_worktrees(g, out) ==
    IF ~g.list_ok
    THEN Err("git worktree list failed")
    ELSE Ok(ParseFlush(ParseLines(ParseInit, out)))

(***************************************************************************)
(* list_worktrees: the managed worktrees.                                  *)
(***************************************************************************)
Worktree(name, path, branch) == [name |-> name, path |-> path, branch |-> branch]

RECURSIVE ManagedOf_Reversed(_, _)
\* Faulty variant: each managed worktree is put in front of those found so far.
ManagedOf_Reversed(worktrees, trees_dir) ==
    IF worktrees = <<>> THEN <<>>
    ELSE LET wt == worktrees[Len(worktrees)]
             rest == ManagedOf_Reversed(SubSeq(worktrees, 1, Len(worktrees) - 1), trees_dir)
         IN  IF PathStartsWith(wt.path, trees_dir)
             THEN <<Worktree(UnwrapOr(FileName(wt.path), <<>>), wt.path, wt.branch)>> \o rest
             ELSE rest

RECURSIVE ManagedOf(_, _)
ManagedOf(worktrees, trees_dir) ==
    IF worktrees = <<>> THEN <<>>
    ELSE LET wt == Head(worktrees)
             rest == ManagedOf(Tail(worktrees), trees_dir)
         IN  IF PathStartsWith(wt.path, trees_dir)
             THEN <<Worktree(UnwrapOr(FileName(wt.path), <<>>), wt.path, wt.branch)>> \o rest
             ELSE rest

list_worktrees(f, g, out, project_root) ==
    LET trees_dir == get_trees_dir(project_root)
    IN  IF ~Exists(f, trees_dir)
        THEN Ok(<<>>)
        ELSE LET worktrees == list_git_worktrees(g, out)
             IN  IF ~worktrees.ok THEN worktrees
                 ELSE Ok(ManagedOf(worktrees.val, trees_dir))

(***************************************************************************)
(* link_entries_to_worktrees                                               *)
(***************************************************************************)
FileEntry(path, link_type) == [path |-> path, link_type |-> link_type]

LinkReport(linked, failed) == [linked |-> linked, failed |-> failed]

\* Faulty variant: a failed link_entry is not recorded.
LinkOne_FailureDropped(acc, src, entry, worktree) ==
    Then(Join(worktree.path, entry.path), LAMBDA dst :
    Then(link_entry(acc.fs, src, dst, entry.link_type), LAMBDA r :
        IF r.ok
        THEN [fs |-> r.fs,
              report |-> [acc.report EXCEPT !.linked = Append(@, <<worktree.name, dst>>)]]
        ELSE [fs |-> r.fs, report |-> acc.report]))

\* The body of `for worktree in &worktrees`.
LinkOne(acc, src, entry, worktree) ==
    Then(Join(worktree.path, entry.path), LAMBDA dst :
    Then(link_entry(acc.fs, src, dst, entry.link_type), LAMBDA r :
        IF r.ok
        THEN [fs |-> r.fs,
              report |-> [acc.report EXCEPT !.linked = Append(@, <<worktree.name, dst>>)]]
        ELSE [fs |-> r.fs,
              report |-> [acc.report EXCEPT
                             !.failed = Append(@, <<worktree.name, dst, r.err>>)]]))

RECURSIVE LinkToEach(_, _, _, _)
LinkToEach(acc, src, entry, worktrees) ==
    IF worktrees = <<>> THEN acc
    ELSE Then(LinkOne(acc, src, entry, Head(worktrees)),
              LAMBDA next : LinkToEach(next, src, entry, Tail(worktrees)))

\* Faulty variant: an entry is linked whether or not its source exists.
SourceExists_Unchecked(f, src) == TRUE

\* `src.exists()`
SourceExists(f, src) == Exists(f, src)

RECURSIVE LinkEach(_, _, _, _)
LinkEach(acc, project_root, entries, worktrees) ==
    IF entries = <<>> THEN acc
    ELSE LET entry == Head(entries)
         IN  Then(Join(project_root, entry.path), LAMBDA src :
             Then(IF ~SourceExists(acc.fs, src)
                  THEN acc
                  ELSE LinkToEach(acc, src, entry, worktrees),
                  LAMBDA next : LinkEach(next, project_root, Tail(entries), worktrees)))

\* Returns the Result and the filesystem left behind.
link_entries_to_worktrees(f, g, out, project_root, entries) ==
    LET report == LinkReport(<<>>, <<>>)
    IN  Then(list_worktrees(f, g, out, project_root), LAMBDA worktrees :
            IF ~worktrees.ok THEN [fs |-> f, res |-> worktrees]
            ELSE IF worktrees.val = <<>> \/ entries = <<>>
            THEN [fs |-> f, res |-> Ok(report)]
            ELSE Then(LinkEach([fs |-> f, report |-> report],
                               project_root, entries, worktrees.val),
                      LAMBDA done : [fs |-> done.fs, res |-> Ok(done.report)]))

(***************************************************************************)
(* remove_symlinks_from_worktrees                                          *)
(***************************************************************************)
SymlinkRemovalReport(removed, failed) == [removed |-> removed, failed |-> failed]

\* Faulty variant: whatever is at the path is removed, symlink or not.
RemoveOne_AnyKind(acc, rel_path, worktree) ==
    LET dst == Join(worktree.path, rel_path)
        metadata == SymlinkMetadata(acc.fs, dst)
    IN  IF metadata.ok
        THEN LET r == RemoveDirAll(acc.fs, dst)
             IN  IF ~r.ok
                 THEN [fs |-> r.fs,
                       report |-> [acc.report EXCEPT
                                      !.failed = Append(@, <<worktree.name, dst, r.err>>)]]
                 ELSE [fs |-> r.fs,
                       report |-> [acc.report EXCEPT
                                      !.removed = Append(@, <<worktree.name, dst>>)]]
        ELSE acc

\* Faulty variant: a path held by something that is not a symlink is recorded
\* as a failure.
RemoveOne_NonSymlinkFailed(acc, rel_path, worktree) ==
    LET dst == Join(worktree.path, rel_path)
        metadata == SymlinkMetadata(acc.fs, dst)
    IN  IF metadata.ok
        THEN IF metadata.val.k = "symlink"
             THEN LET r == RemoveFile(acc.fs, dst)
                  IN  IF ~r.ok
                      THEN [fs |-> r.fs,
                            report |-> [acc.report EXCEPT
                                           !.failed = Append(@, <<worktree.name, dst, r.err>>)]]
                      ELSE [fs |-> r.fs,
                            report |-> [acc.report EXCEPT
                                           !.removed = Append(@, <<worktree.name, dst>>)]]
             ELSE [acc EXCEPT !.report.failed =
                                  Append(@, <<worktree.name, dst, "NotASymlink">>)]
        ELSE IF metadata.val = "NotFound"
        THEN acc
        ELSE [acc EXCEPT !.report.failed = Append(@, <<worktree.name, dst, metadata.val>>)]

\* The body of `for worktree in worktrees`.
RemoveOne(acc, rel_path, worktree) ==
    LET dst == Join(worktree.path, rel_path)
        metadata == SymlinkMetadata(acc.fs, dst)
    IN  IF metadata.ok
        THEN IF metadata.val.k = "symlink"
             THEN LET r == RemoveFile(acc.fs, dst)
                  IN  IF ~r.ok
                      THEN [fs |-> r.fs,
                            report |-> [acc.report EXCEPT
                                           !.failed = Append(@, <<worktree.name, dst, r.err>>)]]
                      ELSE [fs |-> r.fs,
                            report |-> [acc.report EXCEPT
                                           !.removed = Append(@, <<worktree.name, dst>>)]]
             ELSE acc
        ELSE IF metadata.val = "NotFound"
        THEN acc
        ELSE [acc EXCEPT !.report.failed = Append(@, <<worktree.name, dst, metadata.val>>)]

RECURSIVE RemoveEach(_, _, _)
RemoveEach(acc, rel_path, worktrees) ==
    IF worktrees = <<>> THEN acc
    ELSE Then(RemoveOne(acc, rel_path, Head(worktrees)),
              LAMBDA next : RemoveEach(next, rel_path, Tail(worktrees)))

remove_symlinks_from_worktrees(f, g, out, project_root, rel_path) ==
    Then(list_worktrees(f, g, out, project_root), LAMBDA worktrees :
        IF ~worktrees.ok THEN [fs |-> f, res |-> worktrees]
        ELSE Then(RemoveEach([fs |-> f, report |-> SymlinkRemovalReport(<<>>, <<>>)],
                             rel_path, worktrees.val),
                  LAMBDA done : [fs |-> done.fs, res |-> Ok(done.report)]))

(***************************************************************************)
(* Values shared by the specifications.                                    *)
(***************************************************************************)
SeqsUpTo(S, n) == UNION {[1..k -> S] : k \in 0..n}

TreesDir == get_trees_dir(ProjectRoot)

\* The repository root with its .epi directory, before any managed tree.
BaseFs == [p \in {<<RootDir>>, ProjectRoot, Join(ProjectRoot, CONFIG_DIR)} |-> Dir(TRUE)]

GitDefault == [list_ok |-> TRUE, head |-> <<"main", "\n">>, head_ok |-> TRUE,
               branches |-> {}, add_ok |-> TRUE, checkout |-> <<>>, move_ok |-> {},
               ls_ok |-> TRUE, ignored |-> <<>>, tracked |-> {}]

ConfigDefault == [load_ok |-> TRUE, main_branch |-> <<"main">>, files |-> <<>>]

(***************************************************************************)
(* SpecList: the listing operations on a porcelain text drawn freely.      *)
(***************************************************************************)
LineSet ==
    { <<"worktree ", "/", "repo">>,
      <<"worktree ", "/", "repo", "/", ".epi", "/", "trees", "/", "a">>,
      <<"worktree ", "/", "repo", "/", ".epi", "/", "trees", "-old", "/", "b">>,
      <<"worktree ", "/", "sibling">>,
      <<"branch ", "refs/heads/", "f">>,
      <<"branch ", "g">>,
      <<"HEAD ", "abc">>,
      <<>> }

InitList ==
    /\ pc = "start"
    /\ stdout \in SeqsUpTo(LineSet, MaxLines)
    /\ fs \in {BaseFs, BaseFs @@ (TreesDir :> Dir(TRUE))}
    /\ fs0 = fs
    /\ git \in {[GitDefault EXCEPT !.list_ok = b] : b \in BOOLEAN}
    /\ config = ConfigDefault
    /\ cmds = <<>>
    /\ args = <<>>
    /\ ret = <<>>

ListGitWorktrees ==
    /\ pc = "start"
    /\ pc' = "list_git_worktrees"
    /\ ret' = list_git_worktrees(git, stdout)
    /\ UNCHANGED <<stdout, fs, fs0, config, git, cmds, args>>

ListWorktrees ==
    /\ pc = "start"
    /\ pc' = "list_worktrees"
    /\ ret' = list_worktrees(fs, git, stdout, ProjectRoot)
    /\ UNCHANGED <<stdout, fs, fs0, config, git, cmds, args>>

NextList == ListGitWorktrees \/ ListWorktrees

SpecList == InitList /\ [][NextList]_vars

(***************************************************************************)
(* What the listing text says, read off the text itself.                   *)
(***************************************************************************)
WorktreeLines == {j \in 1..Len(stdout) : Len(stdout[j]) > 0 /\ stdout[j][1] = "worktree "}
BranchLines == {j \in 1..Len(stdout) : Len(stdout[j]) > 0 /\ stdout[j][1] = "branch "}

\* The index of the i-th line that begins with "worktree ".
NthWorktreeLine(i) ==
    CHOOSE k \in WorktreeLines : Cardinality({j \in WorktreeLines : j < k}) = i - 1

\* The end of the i-th record: the next "worktree " line, or end of input.
RecordEnd(i) ==
    IF i < Cardinality(WorktreeLines) THEN NthWorktreeLine(i + 1) ELSE Len(stdout) + 1

\* The branch a "branch" line names, a leading refs/heads/ left out.
BranchNamed(line) ==
    LET v == Tail(line)
    IN  IF v # <<>> /\ Head(v) = "refs/heads/" THEN Tail(v) ELSE v

Max(S) == CHOOSE m \in S : \A x \in S : x <= m

\* C1: a listing with N "worktree " lines parses to exactly N records in the
\* order of those lines; each record has the path of its line and the branch of
\* the branch line that follows it before the next "worktree " line (the last
\* one if several, refs/heads/ stripped), the empty branch if there is none;
\* the record of the last "worktree " line is emitted at end of input.
C1_ParseTotalOrdered ==
    (pc = "list_git_worktrees" /\ ret.ok) =>
        /\ Len(ret.val) = Cardinality(WorktreeLines)
        /\ \A i \in 1..Cardinality(WorktreeLines) :
              LET k == NthWorktreeLine(i)
                  bs == {j \in BranchLines : k < j /\ j < RecordEnd(i)}
              IN  /\ ret.val[i].path = PathBufFrom(Tail(stdout[k]))
                  /\ ret.val[i].branch =
                        IF bs = {} THEN <<>> ELSE BranchNamed(stdout[Max(bs)])

\* A listing of two records, the first with a branch line, the last without.
C1_Witness ==
    /\ pc = "list_git_worktrees" /\ ret.ok
    /\ Len(stdout) = 3 /\ WorktreeLines = {1, 3} /\ BranchLines = {2}
    /\ Len(ret.val) = 2
    /\ ret.val[1].branch = <<"f">>
    /\ ret.val[2].branch = <<>>

\* P has the managed directory as a prefix, component by component.
IsUnder(P, dir) == Len(P) >= Len(dir) /\ \A i \in 1..Len(dir) : P[i] = dir[i]

RawPaths == {PathBufFrom(Tail(stdout[j])) : j \in WorktreeLines}
ReturnedPaths == {ret.val[i].path : i \in 1..Len(ret.val)}

\* C2 as stated: list_worktrees returns the record of a raw path P iff P is
\* under the managed directory, in every filesystem state.
C2_PrefixFilterAnyFs ==
    (pc = "list_worktrees" /\ git.list_ok) =>
        /\ ret.ok
        /\ \A P \in RawPaths : P \in ReturnedPaths <=> IsUnder(P, TreesDir)

\* C2 amended: when the managed directory exists on disk, list_worktrees
\* returns the record of a raw path P iff P is under the managed directory;
\* when it does not exist, list_worktrees returns no record at all.
C2_PrefixFilterWhenDirExists ==
    (pc = "list_worktrees" /\ git.list_ok) =>
        /\ ret.ok
        /\ ReturnedPaths \subseteq RawPaths
        /\ IF Exists(fs, TreesDir)
           THEN \A P \in RawPaths : P \in ReturnedPaths <=> IsUnder(P, TreesDir)
           ELSE ret.val = <<>>

\* The main tree is left out and the managed tree is returned.
C2_Witness ==
    /\ pc = "list_worktrees" /\ git.list_ok /\ Exists(fs, TreesDir)
    /\ ProjectRoot \in RawPaths
    /\ ReturnedPaths = {Join(TreesDir, <<"a">>)}

(***************************************************************************)
(* SpecLink: link_entry called twice with the same arguments, over every   *)
(* shape of source, every link type, every occupant of the destination and *)
(* a destination directory that is writable, read-only or not there yet.   *)
(***************************************************************************)
WtA == Join(TreesDir, <<"a">>)
LinkSrc == Join(ProjectRoot, <<"shared">>)
LinkDst == Join(WtA, <<"shared">>)
OtherFile == Join(ProjectRoot, <<"other">>)
OtherDir == Join(ProjectRoot, <<"otherdir">>)
Missing == Join(ProjectRoot, <<"missing">>)

\* The repository root of SpecLink, without the source.
LinkRootFs ==
    BaseFs @@ (TreesDir :> Dir(TRUE)) @@ (OtherFile :> File(3)) @@ (OtherDir :> Dir(TRUE))

\* The source: a file, or a directory with or without entries.
SrcShapes ==
    { (LinkSrc :> File(1)),
      (LinkSrc :> File(2)),
      (LinkSrc :> Dir(TRUE)),
      (LinkSrc :> Dir(TRUE)) @@ (Join(LinkSrc, <<"x">>) :> File(1)),
      (LinkSrc :> Dir(TRUE)) @@ (Join(LinkSrc, <<"x">>) :> File(1))
          @@ (Join(LinkSrc, <<"sub">>) :> Dir(TRUE))
          @@ (Join(LinkSrc, <<"sub", "/", "y">>) :> File(2)) }

\* What occupies the destination: a regular file, a real directory (empty or
\* not), a symlink to the source, to a file, to a directory, or to nothing.
DstOccupants ==
    { (LinkDst :> File(3)),
      (LinkDst :> Dir(TRUE)),
      (LinkDst :> Dir(TRUE)) @@ (Join(LinkDst, <<"old">>) :> File(3)),
      (LinkDst :> Symlink(LinkSrc)),
      (LinkDst :> Symlink(OtherFile)),
      (LinkDst :> Symlink(OtherDir)),
      (LinkDst :> Symlink(Missing)) }

NoEntries == [q \in {} |-> Dir(TRUE)]

\* The worktree directory with what occupies the destination; the directory
\* may be missing only when nothing occupies the destination.
DstShapes ==
    {NoEntries}
    \union {(WtA :> Dir(w)) @@ o : w \in BOOLEAN, o \in DstOccupants \union {NoEntries}}

LinkTypes == {"Symlink", "Copy"}

InitLink ==
    /\ pc = "start"
    /\ stdout = <<>>
    /\ \E s \in SrcShapes, d \in DstShapes : fs = LinkRootFs @@ s @@ d
    /\ fs0 = fs
    /\ config = ConfigDefault
    /\ git = GitDefault
    /\ cmds = <<>>
    /\ \E t \in LinkTypes : args = [src |-> LinkSrc, dst |-> LinkDst, link_type |-> t]
    /\ ret = <<>>

\* link_entry(src, dst, link_type), a first and a second time.
LinkEntry ==
    /\ pc \in {"start", "once"}
    /\ pc' = IF pc = "start" THEN "once" ELSE "twice"
    /\ LET r == link_entry(fs, args.src, args.dst, args.link_type)
       IN  /\ fs' = r.fs
           /\ ret' = [ok |-> r.ok, err |-> r.err]
    /\ UNCHANGED <<stdout, fs0, config, git, cmds, args>>

NextLink == LinkEntry

SpecLink == InitLink /\ [][NextLink]_vars

\* The directory of the destination is missing (and can be created) or writable.
DstDirUsable == WtA \notin DOMAIN fs0 \/ fs0[WtA].w

\* C3: link_entry is idempotent: for every source, link type and occupant of
\* dst, the second of two calls in succession leaves the filesystem the first
\* call left and ends as the first did; both succeed whenever the directory
\* of dst can be written to.
C3_LinkEntryIdempotent ==
    [][pc = "once" =>
          /\ fs' = fs
          /\ ret'.ok = ret.ok
          /\ DstDirUsable => (ret.ok /\ ret'.ok)]_vars

\* A directory copied twice over a real directory that had contents.
C3_Witness ==
    /\ pc = "twice" /\ ret.ok
    /\ args.link_type = "Copy"
    /\ Join(LinkSrc, <<"sub", "/", "y">>) \in DOMAIN fs0
    /\ Join(LinkDst, <<"old">>) \in DOMAIN fs0
    /\ Join(LinkDst, <<"sub", "/", "y">>) \in DOMAIN fs
    /\ Join(LinkDst, <<"old">>) \notin DOMAIN fs

\* C4: after a successful link_entry(src, dst, Symlink), dst is a symbolic link
\* whose target is src and nothing of the previous occupant remains at dst.
C4_SymlinkReplacesOccupant ==
    (pc \in {"once", "twice"} /\ ret.ok /\ args.link_type = "Symlink") =>
        /\ SymlinkMetadata(fs, args.dst) = Ok(Symlink(args.src))
        /\ Below(fs, args.dst) = {}

\* A real directory with contents was replaced by the link.
C4_Witness ==
    /\ pc = "once" /\ ret.ok /\ args.link_type = "Symlink"
    /\ Join(LinkDst, <<"old">>) \in DOMAIN fs0
    /\ fs0[LinkDst].k = "dir"
    /\ fs[LinkDst] = Symlink(LinkSrc)

(***************************************************************************)
(* SpecFan: the fan-out operations over MaxWt managed worktrees, each in   *)
(* one of several states on disk, with the main tree and a foreign tree in *)
(* the listing.                                                            *)
(***************************************************************************)
WtName(i) == <<"w", ToString(i)>>
WtPath(i) == Join(TreesDir, WtName(i))
EntryPath(i) == <<"e", ToString(i)>>
\* An entry in a directory: d/e1.
NestedEntry == <<"d", "/">> \o EntryPath(1)
Sibling == <<RootDir, <<"sibling">>>>

\* The porcelain record of one worktree.
PorcelainOf(path, branch) ==
    << <<"worktree ">> \o ToText(path), <<"HEAD ", "abc">>,
       <<"branch ", "refs/heads/">> \o branch, <<>> >>

RECURSIVE PorcelainManaged(_)
PorcelainManaged(n) ==
    IF n = 0 THEN <<>>
    ELSE PorcelainManaged(n - 1) \o PorcelainOf(WtPath(n), WtName(n))

FanListing ==
    PorcelainOf(ProjectRoot, <<"main">>)
    \o PorcelainOf(WtPath(1), WtName(1))
    \o PorcelainOf(Sibling, <<"sibling">>)
    \o SubSeq(PorcelainManaged(MaxWt), 5, 4 * MaxWt)

\* The same worktrees listed from the last to the first.
RECURSIVE PorcelainManagedDown(_)
PorcelainManagedDown(n) ==
    IF n = 0 THEN <<>>
    ELSE PorcelainOf(WtPath(n), WtName(n)) \o PorcelainManagedDown(n - 1)

FanListingDown ==
    PorcelainOf(ProjectRoot, <<"main">>)
    \o PorcelainManagedDown(MaxWt)
    \o PorcelainOf(Sibling, <<"sibling">>)

\* The states of one managed worktree on disk: at e1 a regular file, a symlink
\* to the source, a real directory with contents, or a symlink in a worktree
\* directory that is not writable; nothing at the other entries' paths.
WtShapes(i) ==
    { (WtPath(i) :> Dir(TRUE)) @@ (Join(WtPath(i), EntryPath(1)) :> File(3)),
      (WtPath(i) :> Dir(TRUE))
          @@ (Join(WtPath(i), EntryPath(1)) :> Symlink(Join(ProjectRoot, EntryPath(1)))),
      (WtPath(i) :> Dir(TRUE)) @@ (Join(WtPath(i), EntryPath(1)) :> Dir(TRUE))
          @@ (Join(Join(WtPath(i), EntryPath(1)), <<"old">>) :> File(3)),
      (WtPath(i) :> Dir(FALSE))
          @@ (Join(WtPath(i), EntryPath(1)) :> Symlink(Join(ProjectRoot, EntryPath(1)))) }

\* Every choice of a state for each of the worktrees 1..n.
RECURSIVE WtLayouts(_)
WtLayouts(n) ==
    IF n = 0 THEN {NoEntries}
    ELSE {rest @@ one : rest \in WtLayouts(n - 1), one \in WtShapes(n)}

\* The sources in the repository root: e1 is there or not, the others are.
RECURSIVE FanSources(_)
FanSources(n) ==
    IF n = 1 THEN NoEntries
    ELSE FanSources(n - 1) @@ (Join(ProjectRoot, EntryPath(n)) :> File(n))

FanRoots ==
    { BaseFs @@ (TreesDir :> Dir(TRUE)) @@ FanSources(MaxEntries) @@ e1 :
          e1 \in {NoEntries, (Join(ProjectRoot, EntryPath(1)) :> File(1))} }

\* The entries of one `files add`: distinct paths, one link type for all.
DistinctPaths(ps) == \A i, j \in 1..Len(ps) : ps[i] = ps[j] => i = j
EntryLists ==
    { [i \in 1..Len(ps) |-> FileEntry(ps[i], t)] :
          ps \in {q \in SeqsUpTo({EntryPath(i) : i \in 1..MaxEntries}, MaxEntries) :
                      DistinctPaths(q)},
          t \in LinkTypes }

InitFan ==
    /\ pc = "start"
    /\ stdout \in {FanListing, FanListingDown}
    /\ \E r \in FanRoots, l \in WtLayouts(MaxWt) : fs = r @@ l
    /\ fs0 = fs
    /\ config = ConfigDefault
    /\ git = GitDefault
    /\ cmds = <<>>
    /\ args = <<>>
    /\ ret = <<>>

LinkEntriesToWorktrees ==
    /\ pc = "start"
    /\ pc' = "link_entries_to_worktrees"
    /\ \E entries \in EntryLists :
          \E r \in {link_entries_to_worktrees(fs, git, stdout, ProjectRoot, entries)} :
              /\ args' = [entries |-> entries]
              /\ fs' = r.fs
              /\ ret' = r.res
    /\ UNCHANGED <<stdout, fs0, config, git, cmds>>

RemoveSymlinksFromWorktrees ==
    /\ pc = "start"
    /\ pc' = "remove_symlinks_from_worktrees"
    /\ \E i \in 1..MaxEntries :
          \E r \in {remove_symlinks_from_worktrees(fs, git, stdout, ProjectRoot,
                                                   EntryPath(i))} :
              /\ args' = [rel_path |-> EntryPath(i)]
              /\ fs' = r.fs
              /\ ret' = r.res
    /\ UNCHANGED <<stdout, fs0, config, git, cmds>>

NextFan == LinkEntriesToWorktrees \/ RemoveSymlinksFromWorktrees \/ ListWorktrees

SpecFan == InitFan /\ [][NextFan]_vars

(***************************************************************************)
(* What the listing and the report say, read off the state.                *)
(***************************************************************************)
\* The lines of the listing whose tree is under the managed directory.
ManagedLines == {k \in WorktreeLines : IsUnder(PathBufFrom(Tail(stdout[k])), TreesDir)}

\* The managed worktrees' paths, in the order of the listing.
ManagedSeq ==
    CHOOSE ms \in {[j \in 1..Cardinality(ml) |->
                       PathBufFrom(Tail(stdout[CHOOSE k \in ml :
                                                  Cardinality({m \in ml : m < k}) = j - 1]))]
                   : ml \in {ManagedLines}} : TRUE

NameOf(P) == P[Len(P)]
NamesOf(ms) == [j \in 1..Len(ms) |-> NameOf(ms[j])]

\* The first column of a report sequence: the worktree names.
Names(items) == [k \in 1..Len(items) |-> items[k][1]]

\* How many items of a report sequence are about this worktree and path.
Count(items, name, dst) ==
    Cardinality({k \in 1..Len(items) : items[k][1] = name /\ items[k][2] = dst})

\* C5: remove_symlinks_from_worktrees never deletes non-symlink data: where
\* <worktree>/<rel_path> was a regular file or a real directory, it is still
\* there unchanged, with all it held, and the worktree is not in `removed`.
C5_RemovalKeepsRealData ==
    pc = "remove_symlinks_from_worktrees" =>
        /\ ret.ok
        /\ \A ms \in {ManagedSeq} : \A j \in 1..Len(ms) :
              \A d \in {ms[j] \o <<args.rel_path>>} :
                  (d \in DOMAIN fs0 /\ fs0[d].k \in {"file", "dir"}) =>
                      /\ d \in DOMAIN fs /\ fs[d] = fs0[d]
                      /\ Below(fs, d) = Below(fs0, d)
                      /\ \A q \in Below(fs0, d) : fs[q] = fs0[q]
                      /\ \A k \in 1..Len(ret.val.removed) :
                            ret.val.removed[k][1] # NameOf(ms[j])

\* A symlink was removed in one worktree while a regular file and a real
\* directory at the same path in two others were kept.
C5_Witness ==
    /\ pc = "remove_symlinks_from_worktrees" /\ ret.ok
    /\ args.rel_path = EntryPath(1)
    /\ Join(WtPath(1), EntryPath(1)) \in DOMAIN fs0
    /\ fs0[Join(WtPath(1), EntryPath(1))].k = "file"
    /\ Join(WtPath(2), EntryPath(1)) \in DOMAIN fs0
    /\ fs0[Join(WtPath(2), EntryPath(1))].k = "dir"
    /\ Names(ret.val.removed) = <<WtName(3)>>

\* The managed worktrees whose <rel_path> was, before the removal, a regular
\* file or a real directory; and those where nothing was there.
InReport(items, name) == \E k \in 1..Len(items) : items[k][1] = name
RealOccupied(ms) ==
    {j \in 1..Len(ms) : /\ ms[j] \o <<args.rel_path>> \in DOMAIN fs0
                        /\ fs0[ms[j] \o <<args.rel_path>>].k \in {"file", "dir"}}
NothingThere(ms) ==
    {j \in 1..Len(ms) : ms[j] \o <<args.rel_path>> \notin DOMAIN fs0}

\* C12 as stated: a worktree whose target path holds a real file or directory
\* is recorded in `failed`; one whose target path is absent is in neither
\* `removed` nor `failed`.
C12_RealOccupantFailed ==
    pc = "remove_symlinks_from_worktrees" =>
        \A ms \in {ManagedSeq} :
            /\ \A j \in RealOccupied(ms) : InReport(ret.val.failed, NameOf(ms[j]))
            /\ \A j \in NothingThere(ms) :
                  /\ ~InReport(ret.val.removed, NameOf(ms[j]))
                  /\ ~InReport(ret.val.failed, NameOf(ms[j]))

\* C12 (amended): a worktree whose target path holds a real file or directory
\* is in neither `removed` nor `failed`, and so is one whose target path is
\* absent.
C12_RealOccupantSkipped ==
    pc = "remove_symlinks_from_worktrees" =>
        /\ ret.ok
        /\ \A ms \in {ManagedSeq} :
              \A j \in RealOccupied(ms) \cup NothingThere(ms) :
                  /\ ~InReport(ret.val.removed, NameOf(ms[j]))
                  /\ ~InReport(ret.val.failed, NameOf(ms[j]))

\* A real directory in the first worktree and a regular file in the second,
\* and the report names neither.
C12_Witness ==
    /\ pc = "remove_symlinks_from_worktrees"
    /\ args.rel_path = EntryPath(1)
    /\ Join(WtPath(1), EntryPath(1)) \in DOMAIN fs0
    /\ fs0[Join(WtPath(1), EntryPath(1))].k = "dir"
    /\ Join(WtPath(2), EntryPath(1)) \in DOMAIN fs0
    /\ fs0[Join(WtPath(2), EntryPath(1))].k = "file"
    /\ ~InReport(ret.val.failed, WtName(1))
    /\ ~InReport(ret.val.failed, WtName(2))

\* The place of a report item in the order of processing: entries in the
\* order supplied and, within an entry, worktrees in the order of the listing.
LinkRank(ms, item) ==
    CHOOSE r \in 1..(Len(args.entries) * Len(ms)) :
        LET i == ((r - 1) \div Len(ms)) + 1
            j == ((r - 1) % Len(ms)) + 1
        IN  item[1] = NameOf(ms[j]) /\ item[2] = ms[j] \o <<args.entries[i].path>>

\* The place of a report item's worktree in the listing.
ListRank(ms, item) == CHOOSE j \in 1..Len(ms) : item[1] = NameOf(ms[j])

InLinkOrder(ms, items) ==
    \A k, k2 \in 1..Len(items) :
        k < k2 => LinkRank(ms, items[k]) < LinkRank(ms, items[k2])

InListOrder(ms, items) ==
    \A k, k2 \in 1..Len(items) :
        k < k2 => ListRank(ms, items[k]) < ListRank(ms, items[k2])

\* C14: reports keep the order of processing: list_worktrees returns the managed
\* worktrees in the order of the listing; `linked` and `failed` of
\* link_entries_to_worktrees are ordered by entry as supplied and, within an
\* entry, by worktree as listed; `removed` and `failed` of
\* remove_symlinks_from_worktrees follow the order of the listing.
C14_ReportsKeepOrder ==
    \A ms \in {ManagedSeq} :
        /\ pc = "list_worktrees" =>
              /\ ret.ok
              /\ [k \in 1..Len(ret.val) |-> ret.val[k].path] = ms
        /\ pc = "link_entries_to_worktrees" =>
              /\ InLinkOrder(ms, ret.val.linked)
              /\ InLinkOrder(ms, ret.val.failed)
        /\ pc = "remove_symlinks_from_worktrees" =>
              /\ InListOrder(ms, ret.val.removed)
              /\ InListOrder(ms, ret.val.failed)

\* The listing names the worktrees from the last to the first, the entries are
\* given as e2, e1, and each is linked in the first and the last worktree.
C14_Witness ==
    /\ pc = "link_entries_to_worktrees"
    /\ stdout = FanListingDown
    /\ Len(args.entries) = 2
    /\ args.entries[1].path = EntryPath(2)
    /\ args.entries[2].path = EntryPath(1)
    /\ Names(ret.val.linked) = <<WtName(MaxWt), WtName(1), WtName(MaxWt), WtName(1)>>
    /\ Len(ret.val.failed) > 0

\* The source of the i-th entry exists in the repository root.
EntrySourceExists(i) == Exists(fs0, ProjectRoot \o <<args.entries[i].path>>)
EntryDst(ms, i, j) == ms[j] \o <<args.entries[i].path>>
ReportedDsts(items) == {items[k][2] : k \in 1..Len(items)}

\* link_entry cannot succeed in a worktree whose directory is not writable.
Unwritable(name) ==
    /\ Join(TreesDir, name) \in DOMAIN fs0
    /\ ~fs0[Join(TreesDir, name)].w
Writable(name) == ~Unwritable(name)

\* C6: a failed link_entry does not stop link_entries_to_worktrees: every
\* later worktree and every later entry (with a source) is still attempted and
\* the operation returns Ok; with a single entry, the worktrees that fail are
\* in `failed` and all the others in `linked` (one failure for the second of
\* three, two successes for the first and the third).
C6_FailureIsolated ==
    pc = "link_entries_to_worktrees" =>
        /\ ret.ok
        /\ \A ms \in {ManagedSeq} :
           \A failed \in {ReportedDsts(ret.val.failed)} :
           \A reported \in {ReportedDsts(ret.val.linked) \union ReportedDsts(ret.val.failed)} :
              /\ \A i, i2 \in 1..Len(args.entries) : \A j, j2 \in 1..Len(ms) :
                    ( /\ EntryDst(ms, i, j) \in failed
                      /\ i2 > i \/ (i2 = i /\ j2 > j)
                      /\ EntrySourceExists(i2) )
                    => EntryDst(ms, i2, j2) \in reported
              /\ (Len(args.entries) = 1 /\ EntrySourceExists(1)) =>
                    /\ Names(ret.val.failed) = SelectSeq(NamesOf(ms), Unwritable)
                    /\ Names(ret.val.linked) = SelectSeq(NamesOf(ms), Writable)

\* Three worktrees, the second fails, the first and the third are linked.
C6_Witness ==
    /\ pc = "link_entries_to_worktrees" /\ ret.ok
    /\ Len(args.entries) = 1
    /\ Len(ManagedSeq) = 3
    /\ EntrySourceExists(1)
    /\ Names(ret.val.failed) = <<WtName(2)>>
    /\ Names(ret.val.linked) = <<WtName(1), WtName(3)>>

\* C7: for each entry with a source and each managed worktree, the pair
\* (worktree, destination) is once in `linked` or once in `failed`, never in
\* both; an entry without a source has no item at all; hence |linked| + |failed|
\* = (managed worktrees) x (entries with a source).
C7_ReportPartition ==
    pc = "link_entries_to_worktrees" =>
        /\ ret.ok
        /\ \A ms \in {ManagedSeq} :
              /\ \A i \in 1..Len(args.entries) : \A j \in 1..Len(ms) :
                    Count(ret.val.linked, NameOf(ms[j]), EntryDst(ms, i, j))
                    + Count(ret.val.failed, NameOf(ms[j]), EntryDst(ms, i, j))
                    = IF EntrySourceExists(i) THEN 1 ELSE 0
              /\ Len(ret.val.linked) + Len(ret.val.failed)
                 = Len(ms) * Cardinality({i \in 1..Len(args.entries) :
                                             EntrySourceExists(i)})

\* Two entries, the first without a source; the second is linked in some
\* worktrees and fails in others.
C7_Witness ==
    /\ pc = "link_entries_to_worktrees" /\ ret.ok
    /\ Len(args.entries) = 2
    /\ ~EntrySourceExists(1) /\ EntrySourceExists(2)
    /\ Len(ret.val.linked) > 0 /\ Len(ret.val.failed) > 0

(***************************************************************************)
(* The `add` command: Commands::Add in main.rs, add_worktree and the git   *)
(* queries it makes.  git.head is what `git rev-parse --abbrev-ref HEAD`   *)
(* prints, git.branches the local branches, git.add_ok whether             *)
(* `git worktree add` exits with 0.                                        *)
(***************************************************************************)
IsSpace(t) == t \in {" ", "\n", "\t"}

RECURSIVE TrimStart(_)
TrimStart(s) == IF s # <<>> /\ IsSpace(Head(s)) THEN TrimStart(Tail(s)) ELSE s

RECURSIVE TrimEnd(_)
TrimEnd(s) ==
    IF s # <<>> /\ IsSpace(s[Len(s)]) THEN TrimEnd(SubSeq(s, 1, Len(s) - 1)) ELSE s

\* str::trim
Trim(s) == TrimEnd(TrimStart(s))

Config_load(c) ==
    IF c.load_ok THEN Ok(c) ELSE Err(<<"Failed to parse config file">>)

get_current_branch(g) ==
    IF ~g.head_ok THEN Err(<<"git rev-parse failed">>) ELSE Ok(Trim(g.head))

\* ensure_on_main_branch without its comparison.
ensure_on_main_branch_Unchecked(g, main_branch) ==
    Then(get_current_branch(g), LAMBDA current :
        IF ~current.ok THEN current ELSE Ok(<<>>))

ensure_on_main_branch(g, main_branch) ==
    Then(get_current_branch(g), LAMBDA current :
        IF ~current.ok THEN current
        ELSE IF current.val # main_branch
             THEN Err(<<"Not on main branch", current.val, main_branch>>)
             ELSE Ok(<<>>))

branch_exists(g, branch_name) == branch_name \in g.branches

\* A git command that was run (each argument a text) and whether it exited
\* with 0.
Command(argv, ok) == [argv |-> argv, ok |-> ok]

\* The `git show-ref` that branch_exists runs.
ShowRef(g, branch_name) ==
    Command(<<<<"show-ref">>, <<"--verify">>, <<"--quiet">>,
              <<"refs/heads/">> \o branch_name>>,
            branch_exists(g, branch_name))

\* What `git worktree add` does with its command line: it refuses a path that
\* is there already (lstat); on success the worktree directory exists with its
\* .git file and the files of the branch (git.checkout), and with -b the
\* branch exists.
GitWorktreeAdd(f, g, argv) ==
    LET create == argv[3] = <<"-b">>
        worktree_path == PathBufFrom(IF create THEN argv[5] ELSE argv[3])
        branch_name == argv[4]
        tracked == [q \in {worktree_path \o r : r \in DOMAIN g.checkout} |->
                       g.checkout[SubSeq(q, Len(worktree_path) + 1, Len(q))]]
    IN  IF ~g.add_ok \/ worktree_path \in DOMAIN f
        THEN [ok |-> FALSE, fs |-> f, git |-> g]
        ELSE [ok |-> TRUE,
              fs |-> (worktree_path :> Dir(TRUE))
                         @@ (Join(worktree_path, <<".git">>) :> File(0))
                         @@ tracked @@ f,
              git |-> IF create THEN [g EXCEPT !.branches = @ \cup {branch_name}]
                      ELSE g]

\* The branch of the new worktree and whether it is created.  An explicit
\* --branch is used as it is.
SelectBranch_NameFirst(g, name, branch) ==
    IF branch_exists(g, name) THEN <<name, FALSE>>
    ELSE IF branch # None THEN <<Unwrap(branch), FALSE>>
    ELSE <<name, TRUE>>

SelectBranch(g, name, branch) ==
    IF branch # None THEN <<Unwrap(branch), FALSE>>
    ELSE IF branch_exists(g, name) THEN <<name, FALSE>>
    ELSE <<name, TRUE>>

\* Faulty variant: a failed link_entry is passed over and the loop goes on.
RECURSIVE link_files_KeepGoing(_, _, _, _)
link_files_KeepGoing(f, project_root, worktree_path, files) ==
    IF files = <<>> THEN FsOk(f)
    ELSE LET entry == Head(files)
             src == Join(project_root, entry.path)
             dst == Join(worktree_path, entry.path)
         IN  IF ~Exists(f, src)
             THEN link_files_KeepGoing(f, project_root, worktree_path, Tail(files))
             ELSE Then(link_entry(f, src, dst, entry.link_type), LAMBDA r :
                      link_files_KeepGoing(r.fs, project_root, worktree_path,
                                           Tail(files)))

RECURSIVE link_files(_, _, _, _)
link_files(f, project_root, worktree_path, files) ==
    IF files = <<>> THEN FsOk(f)
    ELSE LET entry == Head(files)
             src == Join(project_root, entry.path)
             dst == Join(worktree_path, entry.path)
         IN  IF ~Exists(f, src)
             THEN link_files(f, project_root, worktree_path, Tail(files))
             ELSE Then(link_entry(f, src, dst, entry.link_type), LAMBDA r :
                      IF ~r.ok THEN r
                      ELSE link_files(r.fs, project_root, worktree_path, Tail(files)))

\* The result and the filesystem, branches and git commands it leaves.
add_worktree(f, g, project_root, name, branch, cfg) ==
    LET trees_dir == get_trees_dir(project_root)
        worktree_path == Join(trees_dir, name)
        selected == SelectBranch(g, name, branch)
        branch_name == selected[1]
        create_new_branch == selected[2]
        queries == IF branch = None THEN <<ShowRef(g, name)>> ELSE <<>>
        cmd == IF create_new_branch
               THEN <<<<"worktree">>, <<"add">>, <<"-b">>, branch_name,
                      ToText(worktree_path)>>
               ELSE <<<<"worktree">>, <<"add">>, ToText(worktree_path), branch_name>>
    IN  Then(CreateDirAll(f, trees_dir), LAMBDA made :
            IF ~made.ok
            THEN [fs |-> made.fs, git |-> g, cmds |-> <<>>,
                  res |-> Err(<<"Failed to create trees dir", made.err>>)]
            ELSE IF Exists(made.fs, worktree_path)
            THEN [fs |-> made.fs, git |-> g, cmds |-> <<>>,
                  res |-> Err(<<"Worktree already exists", name>>)]
            ELSE Then(GitWorktreeAdd(made.fs, g, cmd), LAMBDA output :
                IF ~output.ok
                THEN [fs |-> made.fs, git |-> g,
                      cmds |-> queries \o <<Command(cmd, FALSE)>>,
                      res |-> Err(<<"git worktree add failed">>)]
                ELSE Then(link_files(output.fs, project_root, worktree_path, cfg.files),
                          LAMBDA linked :
                         [fs |-> linked.fs, git |-> output.git,
                          cmds |-> queries \o <<Command(cmd, TRUE)>>,
                          res |-> IF linked.ok THEN Ok(worktree_path)
                                  ELSE Err(<<linked.err>>)])))

(***************************************************************************)
(* SpecAdd: `epi add <name> [--branch b]` from every combination of HEAD,  *)
(* configured main branch, local branches, managed directory and           *)
(* configured files.  The handler runs in its two calls.                   *)
(***************************************************************************)
Hotfix == <<"hotfix">>
Heads == {<<"main", "\n">>, <<"develop", "\n">>, <<"HEAD", "\n">>}
MainBranches == {<<"main">>, <<"develop">>}
BranchArgs == {None, Some(<<"develop">>)}

\* The configured files: none, e1 and e2 in both orders and as links or copies,
\* and d/e1 before, between and after them.
AddFiles ==
    { <<>>,
      <<FileEntry(EntryPath(1), "Symlink")>>,
      <<FileEntry(EntryPath(1), "Copy"), FileEntry(EntryPath(2), "Copy")>>,
      <<FileEntry(EntryPath(2), "Symlink"), FileEntry(EntryPath(1), "Symlink")>>,
      <<FileEntry(EntryPath(1), "Symlink"), FileEntry(NestedEntry, "Symlink"),
        FileEntry(EntryPath(2), "Symlink")>>,
      <<FileEntry(NestedEntry, "Copy"), FileEntry(EntryPath(1), "Copy")>>,
      <<FileEntry(EntryPath(2), "Symlink"), FileEntry(NestedEntry, "Symlink")>> }

\* What the branch of the new worktree holds: nothing, or a file named d.
Checkouts == {<<>>, (<<<<"d">>>> :> File(5))}

\* The repository root: the sources of the entries, e1 there or not.
AddRoots ==
    { BaseFs @@ FanSources(MaxEntries) @@ (Join(ProjectRoot, <<"d">>) :> Dir(TRUE))
             @@ (Join(ProjectRoot, NestedEntry) :> File(2)) @@ e1 :
          e1 \in {NoEntries, (Join(ProjectRoot, EntryPath(1)) :> File(1))} }

\* The managed directory: missing, empty, holding <name> already (a directory
\* with a file, a regular file, a symlink to nothing), or missing below a .epi
\* that is not writable.
AddTrees(name) ==
    { NoEntries,
      (TreesDir :> Dir(TRUE)),
      (TreesDir :> Dir(TRUE)) @@ (Join(TreesDir, name) :> Dir(TRUE))
          @@ (Join(Join(TreesDir, name), <<"old">>) :> File(3)),
      (TreesDir :> Dir(TRUE)) @@ (Join(TreesDir, name) :> File(3)),
      (TreesDir :> Dir(TRUE)) @@ (Join(TreesDir, name) :> Symlink(<<RootDir, <<"gone">>>>)),
      (Join(ProjectRoot, CONFIG_DIR) :> Dir(FALSE)) }

InitAdd ==
    /\ pc = "start"
    /\ stdout = <<>>
    /\ \E root \in AddRoots, trees \in AddTrees(Hotfix) : fs = trees @@ root
    /\ fs0 = fs
    /\ \E load_ok \in BOOLEAN, main_branch \in MainBranches, files \in AddFiles :
          config = [load_ok |-> load_ok, main_branch |-> main_branch, files |-> files]
    /\ \E head \in Heads, head_ok, add_ok \in BOOLEAN,
          branches \in SUBSET {Hotfix, <<"develop">>}, checkout \in Checkouts :
          git = [GitDefault EXCEPT !.head = head, !.head_ok = head_ok,
                                   !.add_ok = add_ok, !.branches = branches,
                                   !.checkout = checkout]
    /\ cmds = <<>>
    /\ \E branch \in BranchArgs : args = [name |-> Hotfix, branch |-> branch]
    /\ ret = <<>>

\* let config = Config::load(..)?; ensure_on_main_branch(..)?;
AddEnsureOnMainBranch ==
    /\ pc = "start"
    /\ \E r \in {Then(Config_load(config), LAMBDA c :
                     IF ~c.ok THEN c
                     ELSE ensure_on_main_branch(git, c.val.main_branch))} :
          /\ ret' = r
          /\ pc' = IF r.ok THEN "ensure_on_main_branch" ELSE "exit"
    /\ UNCHANGED <<stdout, fs, fs0, config, git, cmds, args>>

\* let path = add_worktree(..)?;
AddWorktree ==
    /\ pc = "ensure_on_main_branch"
    /\ \E r \in {add_worktree(fs, git, ProjectRoot, args.name, args.branch, config)} :
          /\ fs' = r.fs
          /\ git' = r.git
          /\ cmds' = cmds \o r.cmds
          /\ ret' = r.res
          /\ pc' = IF r.res.ok THEN "add_worktree" ELSE "exit"
    /\ UNCHANGED <<stdout, fs0, config, args>>

NextAdd == AddEnsureOnMainBranch \/ AddWorktree

SpecAdd == InitAdd /\ [][NextAdd]_vars

\* The current branch is known and is not the configured main branch.
WrongBranch ==
    /\ config.load_ok
    /\ git.head_ok
    /\ Trim(git.head) # config.main_branch

IssuedWorktreeAdd ==
    {i \in 1..Len(cmds) : SubSeq(cmds[i].argv, 1, 2) = <<<<"worktree">>, <<"add">>>>}

CreatedUnderTreesDir ==
    {p \in DOMAIN fs : PathStartsWith(p, TreesDir) /\ p \notin DOMAIN fs0}

\* C8: when the current branch differs from config.main_branch, `add` fails
\* with the not-on-main-branch error, and at no point of the command has a
\* `git worktree add` been issued or anything been created under the managed
\* directory.
C8_WrongBranchFailsEarly ==
    WrongBranch =>
        /\ IssuedWorktreeAdd = {}
        /\ CreatedUnderTreesDir = {}
        /\ pc # "start" =>
              /\ pc = "exit"
              /\ ~ret.ok
              /\ ret.val = <<"Not on main branch", Trim(git.head), config.main_branch>>

\* `add hotfix` on develop with main configured, the managed directory not there yet.
C8_Witness ==
    /\ pc = "exit"
    /\ WrongBranch
    /\ args.name = Hotfix
    /\ Trim(git.head) = <<"develop">>
    /\ config.main_branch = <<"main">>
    /\ git.add_ok
    /\ TreesDir \notin DOMAIN fs0
    /\ Join(ProjectRoot, CONFIG_DIR) \in DOMAIN fs0
    /\ fs0[Join(ProjectRoot, CONFIG_DIR)].w

\* The step runs `git worktree add`.
AddIssued == pc = "ensure_on_main_branch" /\ cmds' # cmds
AddArgv == cmds'[Len(cmds')].argv
AddPathText == ToText(Join(TreesDir, args.name))

AddOntoOccupied ==
    pc = "ensure_on_main_branch" /\ Join(TreesDir, args.name) \in DOMAIN fs

\* C15: add_worktree fails with the already-exists error whenever something
\* is at <trees>/<name>; then no `git worktree add` is run, no branch is
\* looked up, and what is at <trees>/<name> is left as it is.
C15_OccupiedNameRefused ==
    [][AddOntoOccupied =>
          /\ ret' = Err(<<"Worktree already exists", args.name>>)
          /\ cmds' = cmds
          /\ fs' = fs]_vars

\* The step ran a `git worktree add` that exited with 0.
AddSucceeded == AddIssued /\ cmds'[Len(cmds')].ok
NewWorktree == Join(TreesDir, args.name)

\* The entry has its link or copy in the new worktree.
LinkedIn(f, entry) ==
    LET src == Join(ProjectRoot, entry.path)
        dst == Join(NewWorktree, entry.path)
    IN  /\ dst \in DOMAIN f
        /\ IF entry.link_type = "Symlink" THEN f[dst] = Symlink(src)
           ELSE f[dst] = f[src]

HasSource(entry) == Exists(fs, Join(ProjectRoot, entry.path))

\* link_entry cannot make d/e1 where the branch has a file d.
Blocked(entry) ==
    /\ entry.path = NestedEntry
    /\ <<<<"d">>>> \in DOMAIN git.checkout
    /\ HasSource(entry)

\* The first entry that cannot be linked, 0 when there is none.
FirstBlocked ==
    IF \E i \in 1..Len(config.files) : Blocked(config.files[i])
    THEN CHOOSE i \in 1..Len(config.files) :
             /\ Blocked(config.files[i])
             /\ \A k \in 1..(i - 1) : ~Blocked(config.files[k])
    ELSE 0

\* C18: after `git worktree add` succeeded, the entries are linked in
\* configuration order, an entry without a source is passed over; when
\* link_entry fails for an entry, add_worktree returns an error, the entries
\* after it are not linked, and the new worktree and the links made before the
\* failure stay.
C18_AddAbortsOnLinkError ==
    [][AddSucceeded =>
          /\ NewWorktree \in DOMAIN fs'
          /\ Join(NewWorktree, <<".git">>) \in DOMAIN fs'
          /\ ret'.ok <=> FirstBlocked = 0
          /\ \A i \in 1..Len(config.files) :
                IF HasSource(config.files[i]) /\ (FirstBlocked = 0 \/ i < FirstBlocked)
                THEN LinkedIn(fs', config.files[i])
                ELSE ~LinkedIn(fs', config.files[i])]_vars

\* e1 is linked, d/e1 fails, e2 is not linked, and the worktree is there.
C18_Witness ==
    /\ pc = "exit"
    /\ Len(cmds) > 0 /\ cmds[Len(cmds)].ok
    /\ ~ret.ok
    /\ Len(config.files) = 3
    /\ config.files[2].path = NestedEntry
    /\ Join(NewWorktree, EntryPath(1)) \in DOMAIN fs
    /\ Join(NewWorktree, EntryPath(2)) \notin DOMAIN fs
    /\ NewWorktree \in DOMAIN fs

(***************************************************************************)
(* import_all_worktrees: every worktree git lists outside the managed      *)
(* directory is moved into it with `git worktree move` and relinked.       *)
(* git.move_ok is the set of worktrees git agrees to move.                 *)
(***************************************************************************)
RECURSIVE UniqueFrom(_, _, _, _)
UniqueFrom(f, trees_dir, base, index) ==
    LET candidate == Join(trees_dir, base \o <<"-", ToString(index)>>)
    IN  IF ~Exists(f, candidate) THEN candidate
        ELSE UniqueFrom(f, trees_dir, base, index + 1)

unique_import_path(f, trees_dir, base_name) ==
    LET base == IF base_name = <<>> THEN <<"worktree">> ELSE base_name
        candidate == Join(trees_dir, base)
    IN  IF ~Exists(f, candidate) THEN candidate
        ELSE UniqueFrom(f, trees_dir, base, 2)

relink_worktree(f, project_root, name, cfg) ==
    LET worktree_path == Join(get_trees_dir(project_root), name)
    IN  IF ~Exists(f, worktree_path) THEN FsErr(f, "Worktree does not exist")
        ELSE link_files(f, project_root, worktree_path, cfg.files)

\* rename(2) of a directory: src and everything below it is at dest afterwards.
Rename(f, src, dest) ==
    LET moved == {src} \cup Below(f, src)
        kept == DOMAIN f \ moved
        At(q) == dest \o SubSeq(q, Len(src) + 1, Len(q))
        From(q) == src \o SubSeq(q, Len(dest) + 1, Len(q))
    IN  [q \in kept \cup {At(m) : m \in moved} |->
            IF q \in kept THEN f[q] ELSE f[From(q)]]

\* What `git worktree move <src> <dest>` does: it refuses a worktree it does
\* not agree to move or that is not on disk, and a target that is there
\* already (lstat) or whose directory cannot take a new entry.
GitWorktreeMove(f, g, src_str, dest_str) ==
    LET src == PathBufFrom(src_str)
        dest == PathBufFrom(dest_str)
    IN  IF \/ src \notin g.move_ok
           \/ src \notin DOMAIN f
           \/ dest \in DOMAIN f
           \/ ParentError(f, dest) # ""
        THEN [ok |-> FALSE, fs |-> f]
        ELSE [ok |-> TRUE, fs |-> Rename(f, src, dest)]

ImportMove(from, to, relink_error) ==
    [from |-> from, to |-> to, relink_error |-> relink_error]
ImportSkip(path, reason) == [path |-> path, reason |-> reason]
ImportFailure(path, error) == [path |-> path, error |-> error]
ImportReport == [moved |-> <<>>, skipped |-> <<>>, failed |-> <<>>]

\* The failed move left out of the report.
MoveFailed_Dropped(acc, cmd, src_path) ==
    [acc EXCEPT !.cmds = Append(@, Command(cmd, FALSE))]

\* if !output.status.success() { report.failed.push(..); continue; }
MoveFailed(acc, cmd, src_path) ==
    [acc EXCEPT !.cmds = Append(@, Command(cmd, FALSE)),
                !.report.failed =
                    Append(@, ImportFailure(src_path, "git worktree move failed"))]

\* Faulty variant: a failed relink turns the move into a failure.
MoveDone_RelinkFails(acc, g, f, project_root, cfg, cmd, src_path, dest) ==
    LET name == UnwrapOr(FileName(dest), <<>>)
    IN  Then(relink_worktree(f, project_root, name, cfg), LAMBDA relinked :
            IF relinked.ok
            THEN [fs |-> relinked.fs, cmds |-> Append(acc.cmds, Command(cmd, TRUE)),
                  report |-> [acc.report EXCEPT !.moved =
                                 Append(@, ImportMove(src_path, dest, None))]]
            ELSE [fs |-> relinked.fs, cmds |-> Append(acc.cmds, Command(cmd, TRUE)),
                  report |-> [acc.report EXCEPT !.failed =
                                 Append(@, ImportFailure(src_path, relinked.err))]])

\* After a successful move: relink the worktree and record the move.
MoveDone(acc, g, f, project_root, cfg, cmd, src_path, dest) ==
    LET name == UnwrapOr(FileName(dest), <<>>)
    IN  IF name = <<>>
        THEN [fs |-> f, cmds |-> Append(acc.cmds, Command(cmd, TRUE)),
              report |-> [acc.report EXCEPT !.moved =
                  Append(@, ImportMove(src_path, dest,
                      Some(<<"relink failed: ", "unable to determine worktree name">>)))]]
        ELSE Then(relink_worktree(f, project_root, name, cfg), LAMBDA relinked :
                 [fs |-> relinked.fs, cmds |-> Append(acc.cmds, Command(cmd, TRUE)),
                  report |-> [acc.report EXCEPT !.moved =
                      Append(@, ImportMove(src_path, dest,
                          IF relinked.ok THEN None
                          ELSE Some(<<"relink failed: ", relinked.err>>)))]])

\* One iteration of `for wt in worktrees`; acc is [fs, cmds, report].
ImportOne(acc, g, project_root, cfg, wt) ==
    LET trees_dir == get_trees_dir(project_root)
        src_path == wt.path
        base_name == UnwrapOr(FileName(src_path), <<"worktree">>)
    IN  IF wt.path = project_root
        THEN [acc EXCEPT !.report.skipped =
                             Append(@, ImportSkip(wt.path, "main worktree"))]
        ELSE IF PathStartsWith(wt.path, trees_dir)
        THEN [acc EXCEPT !.report.skipped =
                             Append(@, ImportSkip(wt.path, "already managed"))]
        ELSE Then(unique_import_path(acc.fs, trees_dir, base_name), LAMBDA dest :
                 LET src_str == ToText(src_path)
                     dest_str == ToText(dest)
                     cmd == <<<<"worktree">>, <<"move">>, src_str, dest_str>>
                 IN  Then(GitWorktreeMove(acc.fs, g, src_str, dest_str),
                          LAMBDA output :
                         IF ~output.ok THEN MoveFailed(acc, cmd, src_path)
                         ELSE MoveDone(acc, g, output.fs, project_root, cfg,
                                       cmd, src_path, dest)))

(***************************************************************************)
(* SpecImport: `epi import` on a listing of the main worktree followed by  *)
(* up to MaxImport others: two foreign worktrees named a, a foreign one    *)
(* named a-2 and a managed one.  The loop runs one worktree per step.      *)
(***************************************************************************)
NameA == <<"a">>
NameA2 == <<"a", "-", "2">>
ForeignA == <<RootDir, <<"x">>, NameA>>
ForeignOtherA == <<RootDir, <<"y">>, NameA>>
ForeignA2 == <<RootDir, <<"x">>, NameA2>>
ManagedA == Join(TreesDir, NameA)
Foreign == {ForeignA, ForeignOtherA, ForeignA2}
ImportPool == Foreign \cup {ManagedA}

ImportOrders == {q \in SeqsUpTo(ImportPool, MaxImport) : DistinctPaths(q)}

RECURSIVE PorcelainAll(_)
PorcelainAll(q) ==
    IF q = <<>> THEN <<>>
    ELSE PorcelainOf(Head(q), Unwrap(FileName(Head(q)))) \o PorcelainAll(Tail(q))

\* A worktree directory on disk.
TreeAt(p) == (p :> Dir(TRUE)) @@ (Join(p, <<".git">>) :> File(0))

\* The repository, the sources of e1 and d/e1 and the foreign worktrees; /x/a
\* has a directory d that is not writable.
ImportDisk ==
    BaseFs @@ (Join(ProjectRoot, EntryPath(1)) :> File(1))
           @@ (Join(ProjectRoot, <<"d">>) :> Dir(TRUE))
           @@ (Join(ProjectRoot, NestedEntry) :> File(2))
           @@ (Join(ForeignA, <<"d">>) :> Dir(FALSE))
           @@ (<<RootDir, <<"x">>>> :> Dir(TRUE)) @@ (<<RootDir, <<"y">>>> :> Dir(TRUE))
           @@ TreeAt(ForeignA) @@ TreeAt(ForeignOtherA) @@ TreeAt(ForeignA2)

\* What is at <trees>/a: nothing, a worktree, a symlink to nothing, a symlink to
\* a directory; and at <trees>/a-2: nothing or a worktree.
OccupantsA ==
    { NoEntries, TreeAt(ManagedA),
      (ManagedA :> Symlink(<<RootDir, <<"gone">>>>)),
      (ManagedA :> Symlink(<<RootDir, <<"x">>>>)) }
OccupantsA2 == {NoEntries, TreeAt(Join(TreesDir, NameA2))}

ImportTrees ==
    {NoEntries}
    \cup {(TreesDir :> Dir(TRUE)) @@ a @@ a2 : a \in OccupantsA, a2 \in OccupantsA2}

ImportFiles ==
    { <<>>,
      <<FileEntry(EntryPath(1), "Symlink")>>,
      <<FileEntry(NestedEntry, "Symlink"), FileEntry(EntryPath(1), "Symlink")>> }

InitImport ==
    /\ pc = "start"
    /\ \E q \in ImportOrders :
          stdout = PorcelainOf(ProjectRoot, <<"main">>) \o PorcelainAll(q)
    /\ \E trees \in ImportTrees : fs = trees @@ ImportDisk
    /\ fs0 = fs
    /\ \E files \in ImportFiles : config = [ConfigDefault EXCEPT !.files = files]
    /\ \E list_ok \in BOOLEAN, move_ok \in SUBSET Foreign :
          git = [GitDefault EXCEPT !.list_ok = list_ok, !.move_ok = move_ok]
    /\ cmds = <<>>
    /\ args = <<>>
    /\ ret = <<>>

\* create_dir_all(&trees_dir)?; let worktrees = list_git_worktrees(..)?;
ImportBegin ==
    /\ pc = "start"
    /\ \E made \in {CreateDirAll(fs, TreesDir)} :
          /\ fs' = made.fs
          /\ IF ~made.ok
             THEN /\ ret' = Err(<<"Failed to create trees dir", made.err>>)
                  /\ pc' = "exit"
                  /\ args' = args
             ELSE \E listed \in {list_git_worktrees(git, stdout)} :
                     IF ~listed.ok
                     THEN /\ ret' = listed
                          /\ pc' = "exit"
                          /\ args' = args
                     ELSE /\ ret' = Ok(ImportReport)
                          /\ pc' = "import_loop"
                          /\ args' = [worktrees |-> listed.val, next |-> 1]
    /\ UNCHANGED <<stdout, fs0, config, git, cmds>>

\* for wt in worktrees { .. }
ImportStep ==
    /\ pc = "import_loop"
    /\ args.next <= Len(args.worktrees)
    /\ \E r \in {ImportOne([fs |-> fs, cmds |-> cmds, report |-> ret.val], git,
                           ProjectRoot, config, args.worktrees[args.next])} :
          /\ fs' = r.fs
          /\ cmds' = r.cmds
          /\ ret' = Ok(r.report)
    /\ args' = [args EXCEPT !.next = @ + 1]
    /\ UNCHANGED <<pc, stdout, fs0, config, git>>

\* Ok(report)
ImportReturn ==
    /\ pc = "import_loop"
    /\ args.next > Len(args.worktrees)
    /\ pc' = "import_all_worktrees"
    /\ UNCHANGED <<stdout, fs, fs0, config, git, cmds, args, ret>>

NextImport == ImportBegin \/ ImportStep \/ ImportReturn

SpecImport == InitImport /\ [][NextImport]_vars

\* The step moves a worktree: it runs one more git command.
MoveIssued == pc = "import_loop" /\ Len(cmds') = Len(cmds) + 1
ChosenDest == PathBufFrom(cmds'[Len(cmds')].argv[4])
StepBase == Unwrap(FileName(args.worktrees[args.next].path))

Suffixed(base, k) == Join(TreesDir, base \o <<"-", ToString(k)>>)

\* <trees>/B when nothing is there, else <trees>/B-k for the smallest k >= 2
\* with nothing there.
ClaimedDest(f, base) ==
    IF Join(TreesDir, base) \notin DOMAIN f THEN Join(TreesDir, base)
    ELSE Suffixed(base,
             CHOOSE k \in 2..(Cardinality(Children(f, TreesDir)) + 2) :
                 /\ Suffixed(base, k) \notin DOMAIN f
                 /\ \A j \in 2..(k - 1) : Suffixed(base, j) \in DOMAIN f)

MovedDestsDistinct(report) ==
    \A i, j \in 1..Len(report.moved) :
        report.moved[i].to = report.moved[j].to => i = j

\* C9: a foreign worktree with final component B is moved to <trees>/B when
\* that path does not exist, else to <trees>/B-k for the smallest k >= 2 such
\* that <trees>/B-k does not exist; the destination handed to the move never
\* names a path that is there at the time of the move, and no two worktrees
\* moved in one run get the same destination.
C9_ImportDestUnique ==
    [][MoveIssued =>
          /\ ChosenDest = ClaimedDest(fs, StepBase)
          /\ ChosenDest \notin DOMAIN fs
          /\ MovedDestsDistinct(ret'.val)]_vars

\* How often the report names path p.
Accounted(report, p) ==
    Cardinality({i \in 1..Len(report.skipped) : report.skipped[i].path = p})
    + Cardinality({i \in 1..Len(report.moved) : report.moved[i].from = p})
    + Cardinality({i \in 1..Len(report.failed) : report.failed[i].path = p})

SkippedAs(report, p, reason) ==
    \E i \in 1..Len(report.skipped) : report.skipped[i] = ImportSkip(p, reason)

\* The `git worktree move` commands run for worktree p.
MovesOf(p) ==
    {i \in 1..Len(cmds) : /\ SubSeq(cmds[i].argv, 1, 2) = <<<<"worktree">>, <<"move">>>>
                          /\ PathBufFrom(cmds[i].argv[3]) = p}

\* Worktree p is in the category its path and the exit status of its move give.
Classified(report, p) ==
    /\ Accounted(report, p) = 1
    /\ IF p = ProjectRoot THEN SkippedAs(report, p, "main worktree")
       ELSE IF IsUnder(p, TreesDir) THEN SkippedAs(report, p, "already managed")
       ELSE /\ Cardinality(MovesOf(p)) = 1
            /\ \A m \in MovesOf(p) :
                  IF cmds[m].ok
                  THEN \E i \in 1..Len(report.moved) : report.moved[i].from = p
                  ELSE \E i \in 1..Len(report.failed) : report.failed[i].path = p

\* C10: import_all_worktrees accounts for every worktree of the listing exactly
\* once: the main tree skipped as "main worktree", a managed tree skipped as
\* "already managed", any other tree moved when its move exited with 0 and
\* failed otherwise; the loop goes on after a failed move, so the worktrees
\* already visited are classified at every step and all of them at the return.
C10_ImportAccountsAll ==
    /\ pc = "import_loop" =>
          \A i \in 1..Len(args.worktrees) :
              IF i < args.next
              THEN Classified(ret.val, args.worktrees[i].path)
              ELSE Accounted(ret.val, args.worktrees[i].path) = 0
    /\ pc = "import_all_worktrees" =>
          /\ ret.ok
          /\ \A p \in RawPaths : Classified(ret.val, p)
          /\ Len(ret.val.skipped) + Len(ret.val.moved) + Len(ret.val.failed)
                 = Cardinality(RawPaths)

\* A move failed and a worktree listed after it was moved; both kinds of skip.
C10_Witness ==
    /\ pc = "import_all_worktrees"
    /\ SkippedAs(ret.val, ProjectRoot, "main worktree")
    /\ SkippedAs(ret.val, ManagedA, "already managed")
    /\ \E i, j \in 1..Len(args.worktrees) :
          /\ i < j
          /\ \E k \in 1..Len(ret.val.failed) :
                ret.val.failed[k].path = args.worktrees[i].path
          /\ \E k \in 1..Len(ret.val.moved) :
                ret.val.moved[k].from = args.worktrees[j].path

\* The step ran a `git worktree move` that exited with 0.
MoveSucceeded == MoveIssued /\ cmds'[Len(cmds')].ok
StepSrc == args.worktrees[args.next].path
LastMoved == ret'.val.moved[Len(ret'.val.moved)]

\* What relinking the worktree at its new place answers.
RelinkAfterMove ==
    relink_worktree(Rename(fs, StepSrc, ChosenDest), ProjectRoot,
                    Unwrap(FileName(ChosenDest)), config)

\* C16: when the move of a worktree succeeds and the relink after it fails, the
\* worktree is recorded in `moved` with a relink_error that is not empty and
\* not in `failed`; the moved worktree stays at its new place and the loop
\* goes on to the next worktree.  When the relink succeeds there is no
\* relink_error.
C16_RelinkErrorKeepsMove ==
    [][MoveSucceeded =>
          /\ Len(ret'.val.moved) = Len(ret.val.moved) + 1
          /\ LastMoved.from = StepSrc
          /\ LastMoved.to = ChosenDest
          /\ ret'.val.failed = ret.val.failed
          /\ IF RelinkAfterMove.ok
             THEN LastMoved.relink_error = None
             ELSE /\ LastMoved.relink_error # None
                  /\ Unwrap(LastMoved.relink_error) # <<>>
                  /\ ChosenDest \in DOMAIN fs' /\ fs'[ChosenDest].k = "dir"
                  /\ StepSrc \notin DOMAIN fs'
                  /\ pc' = "import_loop"
                  /\ args'.next = args.next + 1]_vars

\* /x/a was moved and its relink failed; the worktree listed after it was
\* moved and relinked.
C16_Witness ==
    /\ pc = "import_all_worktrees"
    /\ Len(ret.val.moved) = 2
    /\ ret.val.moved[1].from = ForeignA
    /\ ret.val.moved[1].relink_error # None
    /\ ret.val.moved[2].relink_error = None
    /\ ret.val.failed = <<>>
    /\ ret.val.moved[1].to \in DOMAIN fs
    /\ ForeignA \notin DOMAIN fs

(***************************************************************************)
(* detect_current_worktree and resolve_worktree_name.  args.cwd is what    *)
(* std::env::current_dir answers: None when it fails.                      *)
(***************************************************************************)
detect_current_worktree(f, cwd, project_root) ==
    LET trees_dir == get_trees_dir(project_root)
    IN  IF cwd = None THEN Err(<<"Failed to get current directory">>)
        ELSE LET current_dir == Unwrap(cwd)
                 relative == SubSeq(current_dir, Len(trees_dir) + 1, Len(current_dir))
             IN  IF ~PathStartsWith(current_dir, trees_dir) THEN Ok(None)
                 ELSE IF relative # <<>> /\ Exists(f, Join(trees_dir, Head(relative)))
                 THEN Ok(Some(Head(relative)))
                 ELSE Ok(None)

resolve_worktree_name(f, cwd, project_root, name) ==
    IF name # None THEN Ok(Unwrap(name))
    ELSE Then(detect_current_worktree(f, cwd, project_root), LAMBDA detected :
             IF ~detected.ok THEN detected
             ELSE IF detected.val = None THEN Err(<<"Not inside a worktree">>)
             ELSE Ok(Unwrap(detected.val)))

(***************************************************************************)
(* SpecDetect: the current directory is any directory of a disk that has,  *)
(* under the managed directory, the worktrees w1 and w2 (each there or     *)
(* not) and a directory git knows nothing of; git lists up to two of w1,   *)
(* w2 and a sibling worktree after the main one.                           *)
(***************************************************************************)
Junk == Join(TreesDir, <<"junk">>)
TreesOld == <<RootDir, <<"repo">>, CONFIG_DIR, <<"trees", "-old">>>>

DirWithSub(p) == (p :> Dir(TRUE)) @@ (Join(p, <<"sub">>) :> Dir(TRUE))

DetectDisks ==
    {BaseFs @@ DirWithSub(Sibling) @@ DirWithSub(TreesOld)}
    \cup { BaseFs @@ DirWithSub(Sibling) @@ DirWithSub(TreesOld)
                  @@ (TreesDir :> Dir(TRUE)) @@ a @@ b @@ c :
              a \in {NoEntries, DirWithSub(WtPath(1))},
              b \in {NoEntries, DirWithSub(WtPath(2))},
              c \in {NoEntries, DirWithSub(Junk)} }

DetectListings ==
    {q \in SeqsUpTo({WtPath(1), WtPath(2), Sibling}, 2) : DistinctPaths(q)}

InitDetect ==
    /\ pc = "start"
    /\ \E q \in DetectListings :
          stdout = PorcelainOf(ProjectRoot, <<"main">>) \o PorcelainAll(q)
    /\ fs \in DetectDisks
    /\ fs0 = fs
    /\ config = ConfigDefault
    /\ git = GitDefault
    /\ cmds = <<>>
    /\ \E cwd \in {None} \cup {Some(d) : d \in {p \in DOMAIN fs : IsDir(fs, p)}},
          name \in {None, Some(WtName(1))} :
          args = [cwd |-> cwd, name |-> name]
    /\ ret = <<>>

DetectCurrentWorktree ==
    /\ pc = "start"
    /\ pc' = "detect_current_worktree"
    /\ ret' = detect_current_worktree(fs, args.cwd, ProjectRoot)
    /\ UNCHANGED <<stdout, fs, fs0, config, git, cmds, args>>

ResolveWorktreeName ==
    /\ pc = "start"
    /\ pc' = "resolve_worktree_name"
    /\ ret' = resolve_worktree_name(fs, args.cwd, ProjectRoot, args.name)
    /\ UNCHANGED <<stdout, fs, fs0, config, git, cmds, args>>

NextDetect == DetectCurrentWorktree \/ ResolveWorktreeName

SpecDetect == InitDetect /\ [][NextDetect]_vars

\* The names of the worktrees list_worktrees returns.
ManagedNames ==
    LET listed == list_worktrees(fs, git, stdout, ProjectRoot)
    IN  {listed.val[i].name : i \in 1..Len(listed.val)}

\* C13: detect_current_worktree returns a name n only when n is the name of a
\* worktree list_worktrees returns and the current directory is at or below
\* <trees>/n; it returns None, not an error, when the current directory is
\* outside the managed directory or is the managed directory.
C13_DetectManagedOnly ==
    (pc = "detect_current_worktree" /\ args.cwd # None) =>
        /\ ret.ok
        /\ ret.val # None =>
              /\ Unwrap(ret.val) \in ManagedNames
              /\ IsUnder(Unwrap(args.cwd), Join(TreesDir, Unwrap(ret.val)))
        /\ (~IsUnder(Unwrap(args.cwd), TreesDir) \/ Unwrap(args.cwd) = TreesDir) =>
              ret.val = None

(***************************************************************************)
(* The `files` commands of main.rs.  config.files is the saved list.       *)
(* git.ignored is what `git ls-files -i -o --exclude-standard` prints and  *)
(* git.tracked the paths `git ls-files --error-unmatch` knows.             *)
(***************************************************************************)
\* The characters of the texts that are sorted, in byte order.
Alphabet == <<"-", ".", "/", "1", "2", "3", "d", "e">>
CharRank(c) == CHOOSE i \in 1..Len(Alphabet) : Alphabet[i] = c

\* a < b for strings (Ord for str: lexicographic by byte).
RECURSIVE StrLess(_, _)
StrLess(a, b) ==
    IF b = <<>> THEN FALSE
    ELSE IF a = <<>> THEN TRUE
    ELSE IF Head(a) = Head(b) THEN StrLess(Tail(a), Tail(b))
    ELSE CharRank(Head(a)) < CharRank(Head(b))

RECURSIVE InsertSorted(_, _)
InsertSorted(sorted, x) ==
    IF sorted = <<>> THEN <<x>>
    ELSE IF StrLess(x, Head(sorted)) THEN <<x>> \o sorted
    ELSE <<Head(sorted)>> \o InsertSorted(Tail(sorted), x)

\* Faulty variant: the list is left in the order git printed it.
SortStrings_Unsorted(xs) == xs

\* Vec::sort
RECURSIVE SortStrings(_)
SortStrings(xs) ==
    IF xs = <<>> THEN <<>>
    ELSE InsertSorted(SortStrings(SubSeq(xs, 1, Len(xs) - 1)), xs[Len(xs)])

\* Vec::dedup: of equal neighbours the first is kept.
RECURSIVE Dedup(_)
Dedup(xs) ==
    IF Len(xs) < 2 THEN xs
    ELSE IF xs[1] = xs[2] THEN Dedup(Tail(xs))
    ELSE <<xs[1]>> \o Dedup(Tail(xs))

ContainsSlash(line) == \E i \in 1..Len(line) : line[i] = "/"
RootLine(line) == line # <<>> /\ ~ContainsSlash(line)

list_ignored_files(g) ==
    IF ~g.ls_ok THEN Err(<<"git ls-files failed">>)
    ELSE Ok(Dedup(SortStrings(SelectSeq(g.ignored, RootLine))))

is_path_tracked(g, path) == path \in g.tracked

Configured(cfg, path) == \E i \in 1..Len(cfg.files) : cfg.files[i].path = path

\* The candidates offered by select_ignored_files.
IgnoredCandidates(g, cfg) ==
    LET NotConfigured(path) == ~Configured(cfg, path)
    IN  SelectSeq(list_ignored_files(g).val, NotConfigured)

\* MultiSelect: the options ticked, in the order offered; None when cancelled.
select_ignored_files(g, cfg, ticked) ==
    LET candidates == IgnoredCandidates(g, cfg)
    IN  IF ~g.ls_ok THEN list_ignored_files(g)
        ELSE IF candidates = <<>> \/ ticked = None THEN Ok(<<>>)
        ELSE Ok([k \in 1..Cardinality(Unwrap(ticked) \cap DOMAIN candidates) |->
                    candidates[CHOOSE i \in Unwrap(ticked) \cap DOMAIN candidates :
                        Cardinality({m \in Unwrap(ticked) \cap DOMAIN candidates : m < i})
                            = k - 1]])

\* Config::save: the list is stored when the file can be written.
Config_save(saved, cfg, save_ok) ==
    IF save_ok THEN [ok |-> TRUE, config |-> cfg]
    ELSE [ok |-> FALSE, config |-> saved]

\* The paths `files add` is to add.
AddedPaths(cfg, g, path, ignored, ticked) ==
    IF ignored /\ path # None THEN Err(<<"--ignored cannot be used with a path">>)
    ELSE IF ignored THEN select_ignored_files(g, cfg, ticked)
    ELSE IF path = None THEN Err(<<"Path is required unless --ignored is used">>)
    ELSE IF Configured(cfg, Unwrap(path))
    THEN Err(<<"File is already in the configuration", Unwrap(path)>>)
    ELSE IF is_path_tracked(g, Unwrap(path))
    THEN Err(<<"File is tracked by git", Unwrap(path)>>)
    ELSE Ok(<<Unwrap(path)>>)

\* FilesCommands::Add: the saved configuration, the filesystem and the result.
files_add(cfg, f, g, out, project_root, path, copy, ignored, ticked, save_ok) ==
    LET link_type == IF copy THEN "Copy" ELSE "Symlink"
    IN  Then(AddedPaths(cfg, g, path, ignored, ticked), LAMBDA paths :
            IF ~paths.ok THEN [config |-> cfg, fs |-> f, res |-> paths]
            ELSE IF paths.val = <<>> THEN [config |-> cfg, fs |-> f, res |-> Ok(<<>>)]
            ELSE LET new_entries == [i \in 1..Len(paths.val) |->
                                        FileEntry(paths.val[i], link_type)]
                     saved == Config_save(cfg, [cfg EXCEPT !.files = @ \o new_entries],
                                          save_ok)
                 IN  IF ~saved.ok
                     THEN [config |-> saved.config, fs |-> f,
                           res |-> Err(<<"Failed to write config file">>)]
                     ELSE Then(link_entries_to_worktrees(f, g, out, project_root,
                                                         new_entries),
                               LAMBDA linked :
                              [config |-> saved.config, fs |-> linked.fs,
                               res |-> IF linked.res.ok THEN Ok(linked.res.val)
                                       ELSE linked.res]))

\* FilesCommands::Remove
files_remove(cfg, f, g, out, project_root, path, save_ok) ==
    LET Other(entry) == entry.path # path
        retained == SelectSeq(cfg.files, Other)
        saved == Config_save(cfg, [cfg EXCEPT !.files = retained], save_ok)
    IN  IF Len(retained) = Len(cfg.files)
        THEN [config |-> cfg, fs |-> f,
              res |-> Err(<<"File not found in configuration", path>>)]
        ELSE IF ~saved.ok
        THEN [config |-> saved.config, fs |-> f,
              res |-> Err(<<"Failed to write config file">>)]
        ELSE Then(remove_symlinks_from_worktrees(f, g, out, project_root, path),
                  LAMBDA removed :
                 [config |-> saved.config, fs |-> removed.fs,
                  res |-> IF removed.res.ok THEN Ok(removed.res.val) ELSE removed.res])

(***************************************************************************)
(* SpecFiles: any sequence of `files add <path>`, `files add --ignored`    *)
(* and `files remove <path>` over the paths e1, e2 and e3, with one        *)
(* managed worktree.                                                       *)
(***************************************************************************)
FilePaths == {EntryPath(1), EntryPath(2), EntryPath(3)}

\* What git prints for the ignored files: out of order, with a line twice,
\* with a path in a directory and an empty line.
IgnoredListings ==
    { <<>>,
      <<EntryPath(2), EntryPath(1), EntryPath(2)>>,
      <<EntryPath(3), NestedEntry, <<>>, EntryPath(1)>> }

FilesDisk ==
    BaseFs @@ (TreesDir :> Dir(TRUE)) @@ (WtPath(1) :> Dir(TRUE))
           @@ [p \in {Join(ProjectRoot, e) : e \in FilePaths} |-> File(1)]

InitFiles ==
    /\ pc = "start"
    /\ stdout = PorcelainOf(ProjectRoot, <<"main">>) \o PorcelainOf(WtPath(1), WtName(1))
    /\ fs = FilesDisk
    /\ fs0 = fs
    /\ \E files \in {<<>>, <<FileEntry(EntryPath(2), "Copy")>>} :
          config = [ConfigDefault EXCEPT !.files = files]
    /\ \E ignored \in IgnoredListings, tracked \in SUBSET {EntryPath(3)} :
          git = [GitDefault EXCEPT !.ignored = ignored, !.tracked = tracked]
    /\ cmds = <<>>
    /\ args = <<>>
    /\ ret = <<>>

\* epi files add [<path>] [--copy]
FilesAdd ==
    /\ \E path \in {None} \cup {Some(e) : e \in FilePaths}, copy, save_ok \in BOOLEAN :
          \E r \in {files_add(config, fs, git, stdout, ProjectRoot, path, copy,
                              FALSE, None, save_ok)} :
              /\ args' = [path |-> path, copy |-> copy, ignored |-> FALSE]
              /\ config' = r.config
              /\ fs' = r.fs
              /\ ret' = r.res
    /\ pc' = "files_add"
    /\ UNCHANGED <<stdout, fs0, git, cmds>>

\* epi files add --ignored [<path>] [--copy]
FilesAddIgnored ==
    /\ \E path \in {None, Some(EntryPath(1))}, copy, save_ok \in BOOLEAN,
          ticked \in {None} \cup {Some(t) : t \in SUBSET (1..Cardinality(FilePaths))} :
          \E r \in {files_add(config, fs, git, stdout, ProjectRoot, path, copy,
                              TRUE, ticked, save_ok)} :
              /\ args' = [path |-> path, copy |-> copy, ignored |-> TRUE]
              /\ config' = r.config
              /\ fs' = r.fs
              /\ ret' = r.res
    /\ pc' = "files_add_ignored"
    /\ UNCHANGED <<stdout, fs0, git, cmds>>

\* epi files remove <path>
FilesRemove ==
    /\ \E path \in FilePaths, save_ok \in BOOLEAN :
          \E r \in {files_remove(config, fs, git, stdout, ProjectRoot, path, save_ok)} :
              /\ args' = [path |-> Some(path)]
              /\ config' = r.config
              /\ fs' = r.fs
              /\ ret' = r.res
    /\ pc' = "files_remove"
    /\ UNCHANGED <<stdout, fs0, git, cmds>>

NextFiles == FilesAdd \/ FilesAddIgnored \/ FilesRemove

SpecFiles == InitFiles /\ [][NextFiles]_vars

ConfigPaths == [i \in 1..Len(config.files) |-> config.files[i].path]

\* The step is a `files add <path>` for a path the list has.
AddOfPresent ==
    /\ pc' = "files_add"
    /\ args'.path # None
    /\ Configured(config, Unwrap(args'.path))

\* C17: the saved file list has pairwise distinct paths after any sequence of
\* `files add <path>`, `files add --ignored` with any selection, and
\* `files remove <path>`; `files add <path>` for a path the list has fails and
\* leaves the list as it is.
C17_ConfigPathsDistinct ==
    /\ [](DistinctPaths(ConfigPaths))
    /\ [][AddOfPresent => (~ret'.ok /\ config' = config)]_vars

\* All three paths are configured, the last two added by one --ignored run on a
\* listing that is out of order.
C17_Witness ==
    /\ pc = "files_add_ignored"
    /\ ret.ok
    /\ git.ignored = <<EntryPath(3), NestedEntry, <<>>, EntryPath(1)>>
    /\ ConfigPaths = <<EntryPath(2), EntryPath(1), EntryPath(3)>>

====
